---- MODULE Spec2Model ----
(***************************************************************************)
(* n-Queens Counter (src/src_C/n_queens_counter.c).                        *)
(*                                                                         *)
(* One run of the program: main reads its argument, initialize_board       *)
(* validates the size and performs five allocations, place_next_queen      *)
(* runs the recursive backtracking search, print_counts writes the result  *)
(* line, smash_board releases the storage.  The recursion is modelled by   *)
(* an explicit stack of frames, one per active call of place_next_queen,   *)
(* each holding its private loop variable row_i and its position.          *)
(* Arrays are functions over 0..len-1, as in C.                            *)
(***************************************************************************)
EXTENDS Integers, Sequences, FiniteSets, TLC

VARIABLES
    pc,         \* position of main / initialize_board, or "exited" / "ub"
    argv,       \* <<>> when argc == 1, <<string>> when argv[1] is given
    n_queens,   \* the parameter of initialize_board
    board,      \* struct chess_board
    heap,       \* state of each allocated block
    stack,      \* active calls of place_next_queen, innermost last
    stderr,     \* messages written to the error stream
    stdout,     \* lines written to standard output
    exitStatus, \* process exit status, NoStatus while running
    counted     \* history: the full boards on which solutions was incremented

vars == <<pc, argv, n_queens, board, heap, stack, stderr, stdout, exitStatus,
          counted>>

----------------------------------------------------------------------------
(* Bounds of the model *)

\* largest board size given on the command line
MaxSize == 8
\* number of negative sizes given on the command line (-1 .. -MaxNeg)
MaxNeg == 1
\* malloc returns uninitialised storage: its content is any value 0..MaxGarbage
MaxGarbage == 1

----------------------------------------------------------------------------
(* Program constants *)

EXIT_SUCCESS == 0
EXIT_FAILURE == 1
DefaultSize == 4
NoStatus == -1

Blocks == {"board", "queens", "column", "diagonal_up", "diagonal_down"}

MsgSize     == "The number of queens must be greater than 0."
MsgBoard    == "Failed to allocate memory for chess board."
MsgQueens   == "Failed to allocate memory for chess queens."
MsgColumn   == "Failed to allocate memory for column attacks."
MsgDiagUp   == "Failed to allocate memory for diagonal up attacks."
MsgDiagDown == "Failed to allocate memory for diagonal down attacks."

----------------------------------------------------------------------------
(* Command line: argv[1] as a sequence of characters, parsed by atoi *)

DigitChars == <<"0", "1", "2", "3", "4", "5", "6", "7", "8", "9">>

IsDigit(c) == \E d \in 1..10 : DigitChars[d] = c

DigitVal(c) == (CHOOSE d \in 1..10 : DigitChars[d] = c) - 1

RECURSIVE Decimal(_)
Decimal(k) ==
    IF k < 0 THEN <<"-">> \o Decimal(-k)
    ELSE IF k < 10 THEN <<DigitChars[k + 1]>>
    ELSE Decimal(k \div 10) \o <<DigitChars[(k % 10) + 1]>>

\* the strings tried as argv[1]: every size in range, and two non-numbers
ArgStrings ==
    { Decimal(k) : k \in (-MaxNeg)..MaxSize } \cup { <<"a">>, <<"4", "x">> }

RECURSIVE AtoiDigits(_, _)
AtoiDigits(s, acc) ==
    IF s = <<>> \/ ~IsDigit(Head(s)) THEN acc
    ELSE AtoiDigits(Tail(s), acc * 10 + DigitVal(Head(s)))

atoi(s) ==
    IF s = <<>> THEN 0
    ELSE IF Head(s) = "-" THEN 0 - AtoiDigits(Tail(s), 0)
    ELSE IF Head(s) = "+" THEN AtoiDigits(Tail(s), 0)
    ELSE AtoiDigits(s, 0)

----------------------------------------------------------------------------
(* struct chess_board and the operations on it *)

EmptyArr == [i \in {} |-> 0]

\* storage of length len holding v everywhere
Filled(len, v) == [i \in 0..(len - 1) |-> v]

\* the board variable of main before initialize_board has assigned it
NoBoard ==
    [n_size |-> 0, queens |-> EmptyArr, column |-> EmptyArr,
     diagonal_up |-> EmptyArr, diagonal_down |-> EmptyArr,
     col_j |-> 0, placements |-> 0, solutions |-> 0]

\* C's & on non-negative ints
RECURSIVE BitAnd(_, _)
BitAnd(x, y) ==
    IF x = 0 \/ y = 0 THEN 0
    ELSE (x % 2) * (y % 2) + 2 * BitAnd(x \div 2, y \div 2)

\* variant: the offset n_size - 1 written as n_size
UpIndex_OffByOne(b, row_i) == b.n_size + (b.col_j - row_i)

UpIndex(b, row_i) == (b.n_size - 1) + (b.col_j - row_i)

DownIndex(b, row_i) == b.col_j + row_i

\* variant: the row is not consulted
square_is_free_NoColumn(b, row_i) ==
    BitAnd(b.diagonal_up[UpIndex(b, row_i)],
           b.diagonal_down[DownIndex(b, row_i)])

\* variant: the "\" diagonal is not consulted
square_is_free_NoDiagDown(b, row_i) ==
    BitAnd(b.column[row_i], b.diagonal_up[UpIndex(b, row_i)])

\* variant: the "/" diagonal is not consulted
square_is_free_NoDiagUp(b, row_i) ==
    BitAnd(b.column[row_i], b.diagonal_down[DownIndex(b, row_i)])

square_is_free(b, row_i) ==
    BitAnd(BitAnd(b.column[row_i], b.diagonal_up[UpIndex(b, row_i)]),
           b.diagonal_down[DownIndex(b, row_i)])

\* variant: the "\" diagonal is not marked
set_queen_NoDiagDown(b, row_i) ==
    [b EXCEPT !.queens[b.col_j] = row_i,
              !.column[row_i] = 0,
              !.diagonal_up[UpIndex(b, row_i)] = 0,
              !.col_j = b.col_j + 1,
              !.placements = b.placements + 1]

\* variant: the row is not recorded in queens
set_queen_NoRecord(b, row_i) ==
    [b EXCEPT !.column[row_i] = 0,
              !.diagonal_up[UpIndex(b, row_i)] = 0,
              !.diagonal_down[DownIndex(b, row_i)] = 0,
              !.col_j = b.col_j + 1,
              !.placements = b.placements + 1]

\* variant: the placement is not counted
set_queen_NoCount(b, row_i) ==
    [b EXCEPT !.queens[b.col_j] = row_i,
              !.column[row_i] = 0,
              !.diagonal_up[UpIndex(b, row_i)] = 0,
              !.diagonal_down[DownIndex(b, row_i)] = 0,
              !.col_j = b.col_j + 1]

set_queen(b, row_i) ==
    [b EXCEPT !.queens[b.col_j] = row_i,
              !.column[row_i] = 0,
              !.diagonal_up[UpIndex(b, row_i)] = 0,
              !.diagonal_down[DownIndex(b, row_i)] = 0,
              !.col_j = b.col_j + 1,
              !.placements = b.placements + 1]

\* variant: the row is not freed
remove_queen_KeepsRow(b, row_i) ==
    LET b1 == [b EXCEPT !.col_j = b.col_j - 1]
    IN  [b1 EXCEPT !.diagonal_down[DownIndex(b1, row_i)] = 1,
                   !.diagonal_up[UpIndex(b1, row_i)] = 1]

\* variant: the "/" diagonal is not freed
remove_queen_KeepsDiagUp(b, row_i) ==
    LET b1 == [b EXCEPT !.col_j = b.col_j - 1]
    IN  [b1 EXCEPT !.diagonal_down[DownIndex(b1, row_i)] = 1,
                   !.column[row_i] = 1]

\* variant: the diagonals are freed before col_j is decremented
remove_queen_LateDecrement(b, row_i) ==
    [b EXCEPT !.diagonal_down[DownIndex(b, row_i)] = 1,
              !.diagonal_up[UpIndex(b, row_i)] = 1,
              !.column[row_i] = 1,
              !.col_j = b.col_j - 1]

\* variant: backtracking also takes the placement back out of the count
remove_queen_UndoCount(b, row_i) ==
    LET b1 == [b EXCEPT !.col_j = b.col_j - 1,
                        !.placements = b.placements - 1]
    IN  [b1 EXCEPT !.diagonal_down[DownIndex(b1, row_i)] = 1,
                   !.diagonal_up[UpIndex(b1, row_i)] = 1,
                   !.column[row_i] = 1]

remove_queen(b, row_i) ==
    LET b1 == [b EXCEPT !.col_j = b.col_j - 1]
    IN  [b1 EXCEPT !.diagonal_down[DownIndex(b1, row_i)] = 1,
                   !.diagonal_up[UpIndex(b1, row_i)] = 1,
                   !.column[row_i] = 1]

\* the array elements each operation touches all exist
SquareAccessOK(b, row_i) ==
    /\ row_i \in DOMAIN b.column
    /\ UpIndex(b, row_i) \in DOMAIN b.diagonal_up
    /\ DownIndex(b, row_i) \in DOMAIN b.diagonal_down

SetAccessOK(b, row_i) ==
    /\ b.col_j \in DOMAIN b.queens
    /\ SquareAccessOK(b, row_i)

RemoveAccessOK(b, row_i) ==
    SquareAccessOK([b EXCEPT !.col_j = b.col_j - 1], row_i)

\* the messages allocation_error writes for an error code (case 0 has no
\* break and falls through into case 1)
allocation_error(error_code) ==
    CASE error_code = 0 -> <<MsgSize, MsgBoard>>
      [] error_code = 1 -> <<MsgBoard>>
      [] error_code = 2 -> <<MsgQueens>>
      [] error_code = 3 -> <<MsgColumn>>
      [] error_code = 4 -> <<MsgDiagUp>>
      [] error_code = 5 -> <<MsgDiagDown>>
      [] OTHER -> <<>>

\* variant: the two counts are passed in the wrong order
print_counts_Swapped(b) ==
    [size |-> b.n_size, placements |-> b.solutions, solutions |-> b.placements]

\* the line print_counts writes: the three formatted numbers of the fixed text
print_counts(b) ==
    [size |-> b.n_size, placements |-> b.placements, solutions |-> b.solutions]

----------------------------------------------------------------------------
(* Initial state *)

Init ==
    /\ pc = "main"
    /\ argv = <<>>
    /\ n_queens = 0
    /\ board = NoBoard
    /\ heap = [k \in Blocks |-> "none"]
    /\ stack = <<>>
    /\ stderr = <<>>
    /\ stdout = <<>>
    /\ exitStatus = NoStatus
    /\ counted = {}

----------------------------------------------------------------------------
(* main and initialize_board *)

\* allocation_error(error_code): write the message(s), exit(EXIT_FAILURE)
Fail(error_code) ==
    /\ stderr' = stderr \o allocation_error(error_code)
    /\ exitStatus' = EXIT_FAILURE
    /\ pc' = "exited"

\* main, lines 163-168: pick the size and call initialize_board
Main ==
    /\ pc = "main"
    /\ \E a \in {<<>>} \cup { <<s>> : s \in ArgStrings } :
          /\ argv' = a
          /\ n_queens' = IF a = <<>> THEN DefaultSize ELSE atoi(a[1])
    /\ pc' = "check_size"
    /\ UNCHANGED <<board, heap, stack, stderr, stdout, exitStatus, counted>>

\* variant: only negative sizes are rejected
InvalidSize_Negative(n) == n < 0

\* initialize_board, line 60: the size test
InvalidSize(n) == n < 1

\* initialize_board, lines 60-62
CheckSize ==
    /\ pc = "check_size"
    /\ IF InvalidSize(n_queens)
       THEN Fail(0)
       ELSE /\ pc' = "malloc_board"
            /\ UNCHANGED <<stderr, exitStatus>>
    /\ UNCHANGED <<argv, n_queens, board, heap, stack, stdout, counted>>

\* initialize_board, lines 64-67
MallocBoard ==
    /\ pc = "malloc_board"
    /\ \/ \E g \in 0..MaxGarbage :
            /\ board' = [NoBoard EXCEPT !.n_size = g, !.col_j = g,
                                        !.placements = g, !.solutions = g]
            /\ heap' = [heap EXCEPT !["board"] = "live"]
            /\ pc' = "malloc_queens"
            /\ UNCHANGED <<stderr, exitStatus>>
       \/ /\ Fail(1)
          /\ UNCHANGED <<board, heap>>
    /\ UNCHANGED <<argv, n_queens, stack, stdout, counted>>

\* one array allocation of initialize_board: success, or NULL and the error
MallocArray(here, field, len, error_code, next) ==
    /\ pc = here
    /\ \/ \E g \in 0..MaxGarbage :
            /\ board' = [board EXCEPT ![field] = Filled(len, g)]
            /\ heap' = [heap EXCEPT ![field] = "live"]
            /\ pc' = next
            /\ UNCHANGED <<stderr, exitStatus>>
       \/ /\ Fail(error_code)
          /\ UNCHANGED <<board, heap>>
    /\ UNCHANGED <<argv, n_queens, stack, stdout, counted>>

\* lines 69-72
MallocQueens ==
    MallocArray("malloc_queens", "queens", n_queens, 2, "malloc_column")

\* lines 73-76
MallocColumn ==
    MallocArray("malloc_column", "column", n_queens, 3, "malloc_diag_up")

\* lines 77-80
MallocDiagUp ==
    MallocArray("malloc_diag_up", "diagonal_up", 2 * n_queens - 1, 4,
                "malloc_diag_down")

\* lines 81-84
MallocDiagDown ==
    MallocArray("malloc_diag_down", "diagonal_down", 2 * n_queens - 1, 5,
                "init_fields")

\* variant: the two counters are left as malloc returned them
InitFields_NoCounterReset ==
    /\ pc = "init_fields"
    /\ board' = [n_size |-> n_queens,
                 queens |-> [i \in DOMAIN board.queens |-> 0],
                 column |-> [i \in DOMAIN board.column |-> 1],
                 diagonal_up |-> [i \in DOMAIN board.diagonal_up |-> 1],
                 diagonal_down |-> [i \in DOMAIN board.diagonal_down |-> 1],
                 col_j |-> 0, placements |-> board.placements,
                 solutions |-> board.solutions]
    /\ pc' = "call_search"
    /\ UNCHANGED <<argv, n_queens, heap, stack, stderr, stdout,
                   exitStatus, counted>>

\* initialize_board, lines 86-101: both loops write every element
InitFields ==
    /\ pc = "init_fields"
    /\ board' = [n_size |-> n_queens,
                 queens |-> [i \in DOMAIN board.queens |-> 0],
                 column |-> [i \in DOMAIN board.column |-> 1],
                 diagonal_up |-> [i \in DOMAIN board.diagonal_up |->
                     IF i < 2 * n_queens - 1 THEN 1 ELSE board.diagonal_up[i]],
                 diagonal_down |-> [i \in DOMAIN board.diagonal_down |->
                     IF i < 2 * n_queens - 1 THEN 1 ELSE board.diagonal_down[i]],
                 col_j |-> 0, placements |-> 0, solutions |-> 0]
    /\ pc' = "call_search"
    /\ UNCHANGED <<argv, n_queens, heap, stack, stderr, stdout,
                   exitStatus, counted>>

\* main, line 170: the top-level call of place_next_queen
CallSearch ==
    /\ pc = "call_search"
    /\ stack' = <<[row_i |-> 0, at |-> "for", entry |-> board]>>
    /\ pc' = "search"
    /\ UNCHANGED <<argv, n_queens, board, heap, stderr, stdout,
                   exitStatus, counted>>

----------------------------------------------------------------------------
(* place_next_queen.  A frame holds the loop variable row_i, the position   *)
(* "at" inside the loop body, and "entry", the board as it was when the    *)
(* call was entered (a record of history, read by no step).                *)

Top == stack[Len(stack)]

SetTop(f) == [stack EXCEPT ![Len(stack)] = f]

Pop == SubSeq(stack, 1, Len(stack) - 1)

\* variant: the loop test is row_i <= n_size
ForTest_OffByOne ==
    /\ pc = "search"
    /\ stack # <<>>
    /\ Top.at = "for"
    /\ IF Top.row_i <= board.n_size
       THEN /\ stack' = SetTop([Top EXCEPT !.at = "if"])
            /\ pc' = pc
       ELSE /\ stack' = Pop
            /\ pc' = IF Len(stack) = 1 THEN "print" ELSE pc
    /\ UNCHANGED <<argv, n_queens, board, heap, stderr, stdout,
                   exitStatus, counted>>

\* line 144: the loop test; when it fails the call returns to its caller
ForTest ==
    /\ pc = "search"
    /\ stack # <<>>
    /\ Top.at = "for"
    /\ IF Top.row_i < board.n_size
       THEN /\ stack' = SetTop([Top EXCEPT !.at = "if"])
            /\ pc' = pc
       ELSE /\ stack' = Pop
            /\ pc' = IF Len(stack) = 1 THEN "print" ELSE pc
    /\ UNCHANGED <<argv, n_queens, board, heap, stderr, stdout,
                   exitStatus, counted>>

\* line 145: if (square_is_free(board, row_i)); otherwise ++row_i
IfFree ==
    /\ pc = "search"
    /\ stack # <<>>
    /\ Top.at = "if"
    /\ IF ~SquareAccessOK(board, Top.row_i)
       THEN /\ pc' = "ub"
            /\ stack' = stack
       ELSE /\ pc' = pc
            /\ stack' = IF square_is_free(board, Top.row_i) # 0
                        THEN SetTop([Top EXCEPT !.at = "set"])
                        ELSE SetTop([Top EXCEPT !.row_i = Top.row_i + 1, !.at = "for"])
    /\ UNCHANGED <<argv, n_queens, board, heap, stderr, stdout,
                   exitStatus, counted>>

\* line 146: set_queen(board, row_i)
SetQueen ==
    /\ pc = "search"
    /\ stack # <<>>
    /\ Top.at = "set"
    /\ IF ~SetAccessOK(board, Top.row_i)
       THEN /\ pc' = "ub"
            /\ UNCHANGED <<board, stack>>
       ELSE /\ pc' = pc
            /\ board' = set_queen(board, Top.row_i)
            /\ stack' = SetTop([Top EXCEPT !.at = "full"])
    /\ UNCHANGED <<argv, n_queens, heap, stderr, stdout, exitStatus, counted>>

\* variant: the full-board test compares with n_size + 1, so the search
\* recurses on a full board
FullTest_LateBase ==
    /\ pc = "search"
    /\ stack # <<>>
    /\ Top.at = "full"
    /\ IF board.col_j = board.n_size + 1
       THEN /\ board' = [board EXCEPT !.solutions = board.solutions + 1]
            /\ stack' = SetTop([Top EXCEPT !.at = "remove"])
            /\ counted' = counted \cup {board.queens}
       ELSE /\ board' = board
            /\ counted' = counted
            /\ stack' = Append(SetTop([Top EXCEPT !.at = "remove"]),
                               [row_i |-> 0, at |-> "for", entry |-> board])
    /\ UNCHANGED <<pc, argv, n_queens, heap, stderr, stdout, exitStatus>>

\* lines 147-153: count a solution on a full board, else recurse
FullTest ==
    /\ pc = "search"
    /\ stack # <<>>
    /\ Top.at = "full"
    /\ IF board.col_j = board.n_size
       THEN /\ board' = [board EXCEPT !.solutions = board.solutions + 1]
            /\ stack' = SetTop([Top EXCEPT !.at = "remove"])
            /\ counted' = counted \cup {board.queens}
       ELSE /\ board' = board
            /\ counted' = counted
            /\ stack' = Append(SetTop([Top EXCEPT !.at = "remove"]),
                               [row_i |-> 0, at |-> "for", entry |-> board])
    /\ UNCHANGED <<pc, argv, n_queens, heap, stderr, stdout, exitStatus>>

\* line 156 and the loop's ++row_i
RemoveQueen ==
    /\ pc = "search"
    /\ stack # <<>>
    /\ Top.at = "remove"
    /\ IF ~RemoveAccessOK(board, Top.row_i)
       THEN /\ pc' = "ub"
            /\ UNCHANGED <<board, stack>>
       ELSE /\ pc' = pc
            /\ board' = remove_queen(board, Top.row_i)
            /\ stack' = SetTop([Top EXCEPT !.row_i = Top.row_i + 1, !.at = "for"])
    /\ UNCHANGED <<argv, n_queens, heap, stderr, stdout, exitStatus, counted>>

----------------------------------------------------------------------------
(* the end of main *)

\* line 171
PrintCounts ==
    /\ pc = "print"
    /\ stdout' = Append(stdout, print_counts(board))
    /\ pc' = "smash"
    /\ UNCHANGED <<argv, n_queens, board, heap, stack, stderr,
                   exitStatus, counted>>

\* variant: the board record is released before its arrays
FreeOrder_BoardFirst ==
    <<"board", "queens", "column", "diagonal_up", "diagonal_down">>

\* smash_board, lines 105-109: the blocks in the order they are released
FreeOrder == <<"queens", "column", "diagonal_up", "diagonal_down", "board">>

\* one call free(board->k), or free(board): an array pointer is read from the
\* board record, which must still be live; a block is released only once
free_block(h, k) ==
    IF k # "board" /\ h["board"] # "live"
    THEN [h EXCEPT !["board"] = "used_after_free"]
    ELSE [h EXCEPT ![k] = IF h[k] = "live" THEN "freed" ELSE "double_free"]

RECURSIVE FreeAll(_, _)
FreeAll(h, order) ==
    IF order = <<>> THEN h
    ELSE FreeAll(free_block(h, Head(order)), Tail(order))

\* smash_board, lines 104-110: five calls of free
smash_board(h) == FreeAll(h, FreeOrder)

\* line 173
SmashBoard ==
    /\ pc = "smash"
    /\ heap' = smash_board(heap)
    /\ pc' = "return"
    /\ UNCHANGED <<argv, n_queens, board, stack, stderr, stdout,
                   exitStatus, counted>>

\* line 174
MainReturn ==
    /\ pc = "return"
    /\ exitStatus' = EXIT_SUCCESS
    /\ pc' = "exited"
    /\ UNCHANGED <<argv, n_queens, board, heap, stack, stderr,
                   stdout, counted>>

Next ==
    \/ Main
    \/ CheckSize
    \/ MallocBoard
    \/ MallocQueens
    \/ MallocColumn
    \/ MallocDiagUp
    \/ MallocDiagDown
    \/ InitFields
    \/ CallSearch
    \/ ForTest
    \/ IfFree
    \/ SetQueen
    \/ FullTest
    \/ RemoveQueen
    \/ PrintCounts
    \/ SmashBoard
    \/ MainReturn

Spec == Init /\ [][Next]_vars

\* the program is sequential and always executes its next statement
FairSpec == Init /\ [][Next]_vars /\ WF_vars(Next)

----------------------------------------------------------------------------
(* Properties *)

\* the search has returned to main and the process has not failed
SearchDone ==
    \/ pc \in {"print", "smash", "return"}
    \/ pc = "exited" /\ exitStatus = EXIT_SUCCESS

\* the search has returned and the board has not been released yet
SearchReturned == pc \in {"print", "smash"}

AllOnes(arr) == \A i \in DOMAIN arr : arr[i] = 1

\* the established numbers of solutions for sizes 1..8
RefSolutions == <<1, 0, 0, 2, 10, 4, 40, 92>>

\* C1: for every size in 1..8 the finished search has counted the reference
\* number of solutions of the n-queens problem.
C1_ReferenceSolutionCounts ==
    (SearchDone /\ board.n_size \in 1..Len(RefSolutions))
        => board.solutions = RefSolutions[board.n_size]

C1_Witness ==
    SearchDone /\ board.n_size = 8 /\ board.solutions = 92

\* C2 as stated: a run with size 4 ends with 38 placements and 2 solutions,
\* and the line it has written reports size 4, 38 placements, 2 solutions.
C2_SizeFourLine38 ==
    /\ (SearchDone /\ n_queens = 4)
          => (board.placements = 38 /\ board.solutions = 2)
    /\ (pc = "exited" /\ exitStatus = EXIT_SUCCESS /\ n_queens = 4)
          => stdout = <<[size |-> 4, placements |-> 38, solutions |-> 2]>>

\* C2 (amended): a run with size 4 ends with 16 placements and 2 solutions,
\* and the one line it has written reports size 4, 16 placements, 2 solutions.
C2_SizeFourLine16 ==
    /\ (SearchDone /\ n_queens = 4)
          => (board.placements = 16 /\ board.solutions = 2)
    /\ (pc = "exited" /\ exitStatus = EXIT_SUCCESS /\ n_queens = 4)
          => stdout = <<[size |-> 4, placements |-> 16, solutions |-> 2]>>

C2_Witness ==
    /\ pc = "exited"
    /\ argv = <<>>
    /\ stdout = <<[size |-> 4, placements |-> 16, solutions |-> 2]>>

\* C3: once the search has returned, col_j is 0 and every entry of column,
\* diagonal_up and diagonal_down is free (1) again.
C3_BoardRestored ==
    SearchReturned =>
        /\ board.col_j = 0
        /\ AllOnes(board.column)
        /\ AllOnes(board.diagonal_up)
        /\ AllOnes(board.diagonal_down)

C3_Witness ==
    SearchReturned /\ board.n_size = 5 /\ board.placements > 5

\* C4: during the search, every queen in a column below col_j has its row,
\* its up-diagonal and its down-diagonal marked occupied (0).
C4_PlacedQueensMarked ==
    pc = "search" =>
        \A c \in 0..(board.col_j - 1) :
            /\ board.column[board.queens[c]] = 0
            /\ board.diagonal_up[(board.n_size - 1) + (c - board.queens[c])] = 0
            /\ board.diagonal_down[c + board.queens[c]] = 0

C4_Witness ==
    pc = "search" /\ board.n_size = 6 /\ board.col_j = 6

\* C5: a failed construction has written exactly one message to the error
\* stream when the process ends with failure status.
C5_OneErrorMessage ==
    (pc = "exited" /\ exitStatus = EXIT_FAILURE) => Len(stderr) = 1

\* C6: when the process ends with failure status, no block allocated by the
\* failed construction is still live.
C6_NoLiveBlockOnFailure ==
    (pc = "exited" /\ exitStatus = EXIT_FAILURE)
        => \A k \in Blocks : heap[k] # "live"

\* C7: for a size below 1 nothing is ever allocated, the search never starts,
\* nothing is written to standard output, and the process ends with a
\* non-zero status.
C7_InvalidSizeRejected ==
    (pc # "main" /\ n_queens < 1) =>
        /\ pc \in {"check_size", "exited"}
        /\ \A k \in Blocks : heap[k] = "none"
        /\ stack = <<>>
        /\ stdout = <<>>
        /\ pc = "exited" => (exitStatus # NoStatus /\ exitStatus # 0)

C7_Witness ==
    pc = "exited" /\ n_queens < 1 /\ stderr # <<>> /\ exitStatus = EXIT_FAILURE

\* C8: when the finished search has found at least one solution, the number
\* of placements is at least the number of solutions times the size.
C8_PlacementsCoverSolutions ==
    (SearchDone /\ board.solutions >= 1)
        => board.placements >= board.solutions * board.n_size

C8_Witness ==
    SearchDone /\ board.n_size = 7 /\ board.solutions = 40

\* C9: in every step of the search neither placements nor solutions
\* decreases, and solutions changes only in a step taken from a state where
\* col_j equals n_size.
C9_CountersMonotone ==
    [][pc = "search" =>
        /\ board'.placements >= board.placements
        /\ board'.solutions >= board.solutions
        /\ (board'.solutions # board.solutions
               => board.col_j = board.n_size)]_vars

C9_Witness ==
    /\ pc = "search"
    /\ stack # <<>>
    /\ Top.at = "remove"
    /\ board.col_j = board.n_size
    /\ board.solutions = 3

\* C10: every array access of square_is_free, set_queen and remove_queen
\* during the search is in bounds: the row is in 0..n-1, both diagonal
\* indices are in 0..2n-2, and col_j is in 0..n-1 when queens is written;
\* the arrays have those lengths and no access ever leaves them.
C10_AccessesInBounds ==
    /\ pc # "ub"
    /\ (pc = "search" /\ stack # <<>>) =>
        LET n == board.n_size
            r == Top.row_i
            c == IF Top.at = "remove" THEN board.col_j - 1 ELSE board.col_j
        IN  /\ DOMAIN board.queens = 0..(n - 1)
            /\ DOMAIN board.column = 0..(n - 1)
            /\ DOMAIN board.diagonal_up = 0..(2 * n - 2)
            /\ DOMAIN board.diagonal_down = 0..(2 * n - 2)
            /\ Top.at \in {"if", "set", "remove"} =>
                  /\ r \in 0..(n - 1)
                  /\ ((n - 1) + (c - r)) \in 0..(2 * n - 2)
                  /\ (c + r) \in 0..(2 * n - 2)
            /\ Top.at = "set" => c \in 0..(n - 1)

C10_Witness ==
    /\ pc = "search"
    /\ stack # <<>>
    /\ Top.at = "set"
    /\ board.n_size = 5
    /\ board.col_j + Top.row_i = 2 * board.n_size - 2

\* C11: a run with size 1 ends with exactly 1 solution and exactly 1
\* placement.
C11_SizeOne ==
    (SearchDone /\ n_queens = 1)
        => (board.solutions = 1 /\ board.placements = 1)

C11_Witness ==
    /\ pc = "exited"
    /\ exitStatus = EXIT_SUCCESS
    /\ n_queens = 1
    /\ stdout = <<[size |-> 1, placements |-> 1, solutions |-> 1]>>

\* C12: on a successful run each of the five blocks is released exactly once:
\* no block is released twice, none is live at exit, and the board and its
\* arrays are live at every position that reads or writes them.
C12_ReleasedExactlyOnce ==
    /\ \A k \in Blocks : heap[k] \notin {"double_free", "used_after_free"}
    /\ pc \in {"init_fields", "call_search", "search", "print", "smash"}
          => \A k \in Blocks : heap[k] = "live"
    /\ (pc = "return" \/ (pc = "exited" /\ exitStatus = EXIT_SUCCESS))
          => \A k \in Blocks : heap[k] = "freed"

C12_Witness ==
    /\ pc = "exited"
    /\ exitStatus = EXIT_SUCCESS
    /\ stdout # <<>>
    /\ \A k \in Blocks : heap[k] = "freed"

\* the pair (placements, solutions) a finished search holds, by size
FinalCounts ==
    << <<1, 1>>, <<2, 0>>, <<5, 0>>, <<16, 2>>, <<53, 10>>, <<152, 4>>,
       <<551, 40>>, <<2056, 92>>, <<8393, 352>> >>

\* the number of steps of place_next_queen that can be taken next
SearchStepsEnabled ==
    (IF ENABLED ForTest THEN 1 ELSE 0) + (IF ENABLED IfFree THEN 1 ELSE 0)
    + (IF ENABLED SetQueen THEN 1 ELSE 0) + (IF ENABLED FullTest THEN 1 ELSE 0)
    + (IF ENABLED RemoveQueen THEN 1 ELSE 0)

\* C13: the pair (placements, solutions) of a finished run depends on the
\* size only (whatever the argument text and whatever malloc returned), and
\* during the search exactly one step is possible in every state.
C13_Deterministic ==
    /\ (SearchDone /\ board.n_size \in 1..Len(FinalCounts))
          => <<board.placements, board.solutions>> = FinalCounts[board.n_size]
    /\ pc = "search" => SearchStepsEnabled = 1

C13_Witness ==
    /\ SearchDone
    /\ argv = << <<"4", "x">> >>
    /\ <<board.placements, board.solutions>> = <<16, 2>>

\* the board b agrees with the board e of a call's entry on col_j, on the
\* three conflict arrays and on the queens of the columns below col_j
SameAsEntry(e, b) ==
    /\ b.col_j = e.col_j
    /\ b.column = e.column
    /\ b.diagonal_up = e.diagonal_up
    /\ b.diagonal_down = e.diagonal_down
    /\ \A c \in 0..(b.col_j - 1) : b.queens[c] = e.queens[c]

\* a call of place_next_queen is about to return
AtReturn ==
    /\ pc = "search"
    /\ stack # <<>>
    /\ Top.at = "for"
    /\ ~(Top.row_i < board.n_size)

\* C14: every call of place_next_queen returns with col_j, the three
\* conflict arrays and the queens below col_j as they were at its entry.
C14_SearchRestoresBoard ==
    AtReturn => SameAsEntry(Top.entry, board)

C14_Witness ==
    /\ AtReturn
    /\ Len(stack) = 3
    /\ board.placements > Top.entry.placements + 3
    /\ board.solutions > Top.entry.solutions
    /\ board.queens # Top.entry.queens

\* C15: whenever remove_queen(board, row_i) is about to be called, row_i is
\* queens[col_j - 1] and col_j is the depth of the call; and the row of every
\* call waiting for its removal is still the entry of its own column.
C15_RemoveMatchesLastPlaced ==
    (pc = "search" /\ stack # <<>>) =>
        /\ Top.at = "remove" =>
              /\ board.col_j = Len(stack)
              /\ board.queens[board.col_j - 1] = Top.row_i
        /\ \A k \in 1..Len(stack) :
              stack[k].at = "remove" =>
                  /\ k <= board.col_j
                  /\ board.queens[k - 1] = stack[k].row_i

C15_Witness ==
    /\ pc = "search"
    /\ Len(stack) = 2
    /\ Top.at = "remove"
    /\ Top.row_i = 3
    /\ board.col_j < board.n_size
    /\ board.placements > Top.entry.placements + 1

\* set_queen(b, row_i) followed at once by remove_queen(.., row_i) gives back
\* col_j and the three conflict arrays of b and counts one placement
RoundTrip(b, row_i) ==
    LET b2 == remove_queen(set_queen(b, row_i), row_i)
    IN  /\ b2.col_j = b.col_j
        /\ b2.column = b.column
        /\ b2.diagonal_up = b.diagonal_up
        /\ b2.diagonal_down = b.diagonal_down
        /\ b2.placements = b.placements + 1

\* C16: in every state of the search with col_j < n_size, for every row that
\* square_is_free reports free, set_queen followed immediately by
\* remove_queen restores col_j and the three conflict arrays and leaves
\* placements one higher; and where the search has just placed a queen,
\* removing it gives back the conflict state the call was entered with.
C16_PlaceRemoveRoundTrip ==
    (pc = "search" /\ stack # <<>>) =>
        /\ board.col_j < board.n_size =>
              \A r \in 0..(board.n_size - 1) :
                  square_is_free(board, r) # 0 => RoundTrip(board, r)
        /\ Top.at = "full" =>
              LET b2 == remove_queen(board, Top.row_i)
              IN  /\ b2.col_j = Top.entry.col_j
                  /\ b2.column = Top.entry.column
                  /\ b2.diagonal_up = Top.entry.diagonal_up
                  /\ b2.diagonal_down = Top.entry.diagonal_down

C16_Witness ==
    /\ pc = "search"
    /\ stack # <<>>
    /\ Top.at = "full"
    /\ board.n_size = 6
    /\ board.col_j = 4
    /\ \E r \in 0..5 : square_is_free(board, r) # 0 /\ RoundTrip(board, r)

\* C17: throughout the run 0 <= col_j <= n_size, and whenever a call of
\* place_next_queen is at its loop test, at square_is_free or about to place
\* (so at every entry of the search and every evaluation of square_is_free)
\* col_j is below n_size.
C17_NeverSearchesFullBoard ==
    /\ pc \in {"call_search", "search", "print"} =>
          (0 <= board.col_j /\ board.col_j <= board.n_size)
    /\ pc = "call_search" => board.col_j < board.n_size
    /\ (pc = "search" /\ stack # <<>>) =>
          \A k \in 1..Len(stack) :
              /\ stack[k].entry.col_j < board.n_size
              /\ stack[k].at \in {"for", "if", "set"}
                    => board.col_j < board.n_size

C17_Witness ==
    /\ pc = "search"
    /\ stack # <<>>
    /\ Top.at = "remove"
    /\ board.n_size = 4
    /\ board.col_j = board.n_size
    /\ Len(stack) = board.n_size

\* C18: the search terminates: from the top-level call of place_next_queen
\* the run reaches the end of a successful run, with the top-level call
\* returned and the one result line written; and the number of active calls
\* never exceeds n_size.
C18_SearchTerminates ==
    /\ [](pc = "search" => Len(stack) <= board.n_size)
    /\ (pc = "call_search") ~>
          (/\ pc = "exited"
           /\ exitStatus = EXIT_SUCCESS
           /\ stack = <<>>
           /\ Len(stdout) = 1)

C18_Witness ==
    /\ pc = "print"
    /\ stack = <<>>
    /\ board.n_size = 8
    /\ board.placements = 2056

\* the reference check: no queen placed in a column below col_j attacks the
\* square (col_j, row) along its row or along either diagonal
ScanFree(b, row) ==
    \A c \in 0..(b.col_j - 1) :
        /\ b.queens[c] # row
        /\ c - b.queens[c] # b.col_j - row
        /\ c + b.queens[c] # b.col_j + row

\* C19: wherever the search evaluates square_is_free(board, row_i), its
\* result is non-zero exactly when the scan of the placed queens finds no
\* attack; and an entry of a conflict array is occupied (0) only when a
\* currently placed queen occupies that row or diagonal.
C19_FreeMatchesScan ==
    (pc = "search" /\ stack # <<>>) =>
        /\ Top.at = "if" =>
              ((square_is_free(board, Top.row_i) # 0)
                  <=> ScanFree(board, Top.row_i))
        /\ \A i \in DOMAIN board.column :
              board.column[i] = 0 =>
                  \E c \in 0..(board.col_j - 1) : board.queens[c] = i
        /\ \A i \in DOMAIN board.diagonal_up :
              board.diagonal_up[i] = 0 =>
                  \E c \in 0..(board.col_j - 1) :
                      (board.n_size - 1) + (c - board.queens[c]) = i
        /\ \A i \in DOMAIN board.diagonal_down :
              board.diagonal_down[i] = 0 =>
                  \E c \in 0..(board.col_j - 1) : c + board.queens[c] = i

C19_Witness ==
    /\ pc = "search"
    /\ stack # <<>>
    /\ Top.at = "if"
    /\ board.n_size = 5
    /\ board.col_j = 3
    /\ board.column[Top.row_i] = 1
    /\ board.diagonal_down[board.col_j + Top.row_i] = 1
    /\ ~ScanFree(board, Top.row_i)

\* the queens in the columns below col_j are pairwise non-attacking
NonAttacking(b) ==
    \A c1 \in 0..(b.col_j - 1) : \A c2 \in (c1 + 1)..(b.col_j - 1) :
        /\ b.queens[c1] # b.queens[c2]
        /\ c1 - b.queens[c1] # c2 - b.queens[c2]
        /\ c1 + b.queens[c1] # c2 + b.queens[c2]

\* solutions is about to be incremented (line 149)
AboutToCount ==
    /\ pc = "search"
    /\ stack # <<>>
    /\ Top.at = "full"
    /\ board.col_j = board.n_size

\* C20: in every state of the search the placed queens are pairwise
\* non-attacking; where solutions is incremented the board is complete and
\* has not been counted before; and the number of distinct boards counted
\* equals solutions.
C20_ValidDistinctSolutions ==
    /\ pc = "search" => NonAttacking(board)
    /\ AboutToCount =>
          /\ \A c \in 0..(board.n_size - 1) :
                board.queens[c] \in 0..(board.n_size - 1)
          /\ board.queens \notin counted
    /\ pc \in {"search", "print"} => Cardinality(counted) = board.solutions

C20_Witness ==
    /\ AboutToCount
    /\ board.n_size = 6
    /\ Cardinality(counted) = 3
    /\ board.queens \notin counted

====
